---- MODULE Spec2Model ----
(***************************************************************************)
(* Model of finetune.py: the Point-MAE fine-tuning LightningModule          *)
(* (Point_MAE_finetune_pl), the UnfreezeBackbone callback, cal_loss and the *)
(* __main__ script that loads the pretrained submodules and runs            *)
(* trainer.fit.                                                             *)
(*                                                                          *)
(* Tensors are abstracted: a module's state is a function from its          *)
(* state-dict keys to abstract tensor values, a tensor's shape is a         *)
(* sequence of integers.  The code never inspects a weight value, so the    *)
(* values only serve to tell "loaded", "fresh" and "updated" apart.         *)
(***************************************************************************)
EXTENDS Integers, Sequences, FiniteSets, TLC

----------------------------------------------------------------------------
(* Bounds of the model *)

\* abstract tensor values are 0..MaxVal
MaxVal == 1
\* largest batch size the loaders deliver
MaxBatch == 2
\* training batches per epoch
NumTrainBatches == 2
\* validation batches per validation run
NumValBatches == 1
\* epochs range over 0..MaxEpoch in the harness (unfreeze_epoch, start, max_epochs)
MaxEpoch == 2
\* cal_loss is applied to 1..MaxClasses classes and 1..MaxSamples samples
MaxClasses == 3
MaxSamples == 2

----------------------------------------------------------------------------
(* Program constants *)

\* trainer = pl.Trainer(..., max_epochs=300, ...)
ScriptMaxEpochs == 300
\* callbacks=[UnfreezeBackbone(100)]
ScriptUnfreezeEpoch == 100
\* Group(group_size=32, num_group=64)
GroupSize == 32
NumGroup == 64
\* TransformerWithEmbeddings(embed_dim=384, ...)
EmbedDim == 384
\* nn.Linear(2 * 384, 256), nn.Linear(256, 256)
HiddenDim == 256
\* nn.Linear(256, 40)
NumClasses == 40

Values == 0..MaxVal

\* keys of the checkpoint dictionary read by load_submodules
CkptKeys == {"group_devider", "MAE_encoder", "cls_head"}

\* state-dict keys of the three submodules
GroupKeys == {"grp.buf"}
EncParams == {"enc.w", "enc.b"}
HeadParams == {"head.w"}
\* self.parameters(): the trainable tensors of the whole module
Params == EncParams \cup HeadParams

ModuleKeys(k) ==
    CASE k = "group_devider" -> GroupKeys
      [] k = "MAE_encoder" -> EncParams
      [] k = "cls_head" -> HeadParams

\* every state dict that may be stored under checkpoint key k: any subset of
\* the module's keys (a strict load rejects the incomplete ones)
StateDicts(k) == UNION {[d -> Values] : d \in SUBSET ModuleKeys(k)}


\* the checkpoint dictionaries torch.load may return: any subset of the three
\* keys, each present key holding a state dict of its module
AllStateDicts == StateDicts("group_devider") \cup StateDicts("MAE_encoder")
                    \cup StateDicts("cls_head")
Checkpoints ==
    UNION {{c \in [d -> AllStateDicts] : \A k \in d : c[k] \in StateDicts(k)}
              : d \in SUBSET CkptKeys}

\* what is found at the path: nothing ({}), or one checkpoint ({c})
Files == {{}} \cup {{c} : c \in Checkpoints}

\* the files used for the runs of the trainer: every key structure, every
\* tensor holding the value 0
RunFiles == {f \in Files : \A c \in f : \A k \in DOMAIN c :
                              \A p \in DOMAIN c[k] : c[k][p] = 0}

----------------------------------------------------------------------------
VARIABLES
    pc,              \* position of the caller: constructed, loaded, load_error,
                     \* sanity, epoch_check, train, validate, finished, step_error
    error,           \* the exception that ended the run, "none" if none
    file,            \* the file handed to load_submodules ({} or {checkpoint})
    freeze_arg,      \* the freeze_backbone argument of load_submodules
    group_devider,   \* state of self.group_devider
    MAE_encoder,     \* state of self.MAE_encoder
    cls_head,        \* state of self.cls_head
    requires_grad,   \* requires_grad flag of every parameter
    training,        \* nn.Module.training of the model
    opt_params,      \* the parameters the optimizer was built over
    opt_builds,      \* number of calls of configure_optimizers
    grads,           \* parameters whose .grad is not None
    unfreeze_epoch,  \* UnfreezeBackbone.unfreeze_epoch
    start_epoch,     \* trainer.current_epoch when fit starts
    max_epochs,      \* trainer.max_epochs
    current_epoch,   \* trainer.current_epoch
    batch_idx,       \* index of the next batch of the running loop
    unfreeze_calls,  \* number of unfreeze_backbone calls made by the callback
    epochs_started,  \* number of training epochs started
    last_started,    \* index of the training epoch started last, -1 if none
    fwd_in,          \* forward: shape of pts
    logits,          \* forward: shape of the logits, <<>> before the call
    loss_in,         \* cal_loss: [n_class, gold, log_prb, smoothing]
    loss_out         \* cal_loss: the loss as [num, den], den = 0 before the call

model_vars == <<group_devider, MAE_encoder, cls_head, requires_grad, training>>
opt_vars == <<opt_params, opt_builds, grads>>
trainer_vars == <<unfreeze_epoch, start_epoch, max_epochs, current_epoch, batch_idx,
                  unfreeze_calls, epochs_started, last_started>>
pure_vars == <<fwd_in, logits, loss_in, loss_out>>
vars == <<pc, error, file, freeze_arg, model_vars, opt_vars, trainer_vars, pure_vars>>

----------------------------------------------------------------------------
(* nn.Module state and the methods of Point_MAE_finetune_pl that act on it *)

\* faulty variant of load_state_dict (C6): the keys are checked, nothing is copied
load_state_dict_keep(state, sd) == [ok |-> DOMAIN sd = DOMAIN state, state |-> state]

\* module.load_state_dict(sd), strict: the tensors of the keys present are
\* copied into the module, then missing keys are reported as an error
load_state_dict(state, sd) ==
    [ok    |-> DOMAIN sd = DOMAIN state,
     state |-> [p \in DOMAIN state |-> IF p \in DOMAIN sd THEN sd[p] ELSE state[p]]]

\* faulty variant of freeze_backbone (C7): it walks self.parameters()
freeze_backbone_all(rg) == [p \in DOMAIN rg |-> FALSE]

\* freeze_backbone: requires_grad = False on every MAE_encoder parameter
freeze_backbone(rg) == [p \in DOMAIN rg |-> IF p \in EncParams THEN FALSE ELSE rg[p]]

\* unfreeze_backbone: requires_grad = True on every MAE_encoder parameter
unfreeze_backbone(rg) == [p \in DOMAIN rg |-> IF p \in EncParams THEN TRUE ELSE rg[p]]

\* 'cls_head' in checkpoint.keys()
has_cls_head(ckpt) == "cls_head" \in DOMAIN ckpt

\* faulty variant of freeze_if (C10): the flag is ignored
freeze_if_always(fz, rg) == [p \in DOMAIN rg |-> IF p \in EncParams THEN FALSE ELSE rg[p]]

\* the optional tail of load_submodules: if freeze_backbone: self.freeze_backbone()
freeze_if(fz, rg) == IF fz THEN freeze_backbone(rg) ELSE rg

\* faulty variant of load_key (C2): an absent key is skipped
load_key_lenient(m, key, ckpt) ==
    IF key \notin DOMAIN ckpt THEN m
    ELSE LET r == load_state_dict(m[key], ckpt[key])
         IN  [m EXCEPT ![key] = r.state,
                       !.error = IF r.ok THEN "none" ELSE "RuntimeError"]

\* self.<key>.load_state_dict(checkpoint[key]) on the model state m =
\* [group_devider, MAE_encoder, cls_head, requires_grad, error]: the subscript
\* raises KeyError when the key is absent, the strict load raises RuntimeError
\* after copying what it could
load_key(m, key, ckpt) ==
    IF key \notin DOMAIN ckpt THEN [m EXCEPT !.error = "KeyError"]
    ELSE LET r == load_state_dict(m[key], ckpt[key])
         IN  [m EXCEPT ![key] = r.state,
                       !.error = IF r.ok THEN "none" ELSE "RuntimeError"]

\* load_submodules(path, freeze_backbone); f is what is at the path.  The
\* result is the model state the call leaves behind and the exception it ends
\* in ("none": it returns).  The statements run in the order of the code and
\* the first exception ends the call.
load_submodules(m, f, fz) ==
    IF f = {} THEN [m EXCEPT !.error = "FileNotFoundError"]
    ELSE
    LET ckpt == CHOOSE c \in f : TRUE
        m1   == load_key(m, "group_devider", ckpt)
        m2   == IF m1.error # "none" THEN m1 ELSE load_key(m1, "MAE_encoder", ckpt)
        m3   == IF m2.error # "none" \/ ~has_cls_head(ckpt) THEN m2
                ELSE load_key(m2, "cls_head", ckpt)
    IN  IF m3.error # "none" THEN m3
        ELSE [m3 EXCEPT !.requires_grad = freeze_if(fz, m3.requires_grad)]

\* configure_optimizers: AdamW(params=self.parameters(), ...): every parameter
\* of the module, whatever its requires_grad flag
configure_optimizers == Params

\* loss.backward(): a gradient is produced for the parameters that require
\* one.  zero_grad before it either drops the old gradients or zeroes them in
\* place (the default differs between torch releases): keep is the latter case.
backward(g, rg, keep) == (IF keep THEN g ELSE {}) \cup {p \in Params : rg[p]}

\* faulty variant of stepped (C8): every parameter of the optimizer is updated
stepped_all(op, g) == op

\* optimizer.step(): AdamW skips a parameter whose .grad is None and updates
\* the others it was built over
stepped(op, g) == op \cap g

----------------------------------------------------------------------------
(* forward: tensor shapes.  A value is [err, shape]; an exception raised by  *)
(* a layer is carried to the end.                                            *)

Ok(shape) == [err |-> "none", shape |-> shape]
Raise(e) == [err |-> e, shape |-> <<>>]

\* self.group_devider(pts): pts is [B, N, 3] with at least group_size points;
\* returns neighborhood [B, G, M, 3] (center [B, G, 3] has the same B and G)
group_forward(pts) ==
    IF Len(pts) = 3 /\ pts[3] = 3 /\ pts[1] >= 1 /\ pts[2] >= GroupSize
    THEN Ok(<<pts[1], NumGroup, GroupSize, 3>>)
    ELSE Raise("RuntimeError")

\* self.MAE_encoder(neighborhood, center): one embed_dim token per group
encoder_forward(nb) ==
    IF nb.err # "none" THEN nb ELSE Ok(<<nb.shape[1], nb.shape[2], EmbedDim>>)

\* torch.max(x, dim=1).values and torch.mean(x, dim=1): dimension 1 (the
\* second one) is reduced away
reduce_dim1(x) ==
    IF x.err # "none" THEN x
    ELSE IF Len(x.shape) < 2 THEN Raise("IndexError")
    ELSE Ok(<<x.shape[1]>> \o SubSeq(x.shape, 3, Len(x.shape)))

\* faulty variant of cat_last (C3): the two poolings are added, not concatenated
cat_last_sum(a, b) == IF a.err # "none" THEN a ELSE IF b.err # "none" THEN b ELSE a

\* torch.cat([a, b], dim=-1): all dimensions but the last must agree
cat_last(a, b) ==
    IF a.err # "none" THEN a
    ELSE IF b.err # "none" THEN b
    ELSE IF Len(a.shape) # Len(b.shape) \/ Len(a.shape) = 0
            \/ SubSeq(a.shape, 1, Len(a.shape) - 1) # SubSeq(b.shape, 1, Len(b.shape) - 1)
         THEN Raise("RuntimeError")
    ELSE Ok(SubSeq(a.shape, 1, Len(a.shape) - 1)
               \o <<a.shape[Len(a.shape)] + b.shape[Len(b.shape)]>>)

\* nn.Linear(a, b): the last dimension must be a and becomes b
Linear(a, b, x) ==
    IF Len(x) = 0 \/ x[Len(x)] # a THEN Raise("RuntimeError")
    ELSE Ok(SubSeq(x, 1, Len(x) - 1) \o <<b>>)

\* nn.BatchNorm1d(n) on a [B, n] input: in training mode the batch statistics
\* need more than one value per channel ("Expected more than 1 value per
\* channel when training"); in eval mode the running statistics are used
BatchNorm1d(n, x, train) ==
    IF Len(x) # 2 \/ x[2] # n THEN Raise("RuntimeError")
    ELSE IF train /\ x[1] = 1 THEN Raise("ValueError")
    ELSE Ok(x)

\* self.cls_head = nn.Sequential(...): the layers in order; ReLU and Dropout
\* keep the shape
cls_head_layers ==
    << [op |-> "Linear",      a |-> 2 * EmbedDim, b |-> HiddenDim],
       [op |-> "BatchNorm1d", a |-> HiddenDim,    b |-> HiddenDim],
       [op |-> "ReLU",        a |-> 0,            b |-> 0],
       [op |-> "Dropout",     a |-> 0,            b |-> 0],
       [op |-> "Linear",      a |-> HiddenDim,    b |-> HiddenDim],
       [op |-> "BatchNorm1d", a |-> HiddenDim,    b |-> HiddenDim],
       [op |-> "ReLU",        a |-> 0,            b |-> 0],
       [op |-> "Dropout",     a |-> 0,            b |-> 0],
       [op |-> "Linear",      a |-> HiddenDim,    b |-> NumClasses] >>

apply_layer(l, x, train) ==
    IF x.err # "none" THEN x
    ELSE CASE l.op = "Linear"      -> Linear(l.a, l.b, x.shape)
           [] l.op = "BatchNorm1d" -> BatchNorm1d(l.a, x.shape, train)
           [] OTHER                -> x

RECURSIVE sequential(_, _, _, _)
sequential(layers, i, x, train) ==
    IF i > Len(layers) THEN x
    ELSE sequential(layers, i + 1, apply_layer(layers[i], x, train), train)

\* forward(pts) with the module in training mode (train) or in eval mode
forward(pts, train) ==
    LET neighborhood   == group_forward(pts)
        x_vis          == encoder_forward(neighborhood)
        max_features   == reduce_dim1(x_vis)
        mean_features  == reduce_dim1(x_vis)
        feature_vector == cat_last(max_features, mean_features)
    IN  sequential(cls_head_layers, 1, feature_vector, train)

----------------------------------------------------------------------------
(* cal_loss in exact rational arithmetic.  log_prb = F.log_softmax(pred) is  *)
(* taken as given (integers <= 0, one row per sample, one entry per class);  *)
(* a weight or a loss is a numerator over a stated denominator.              *)

\* eps = 0.2, as EpsNum / EpsDen
EpsNum == 2
EpsDen == 10

RECURSIVE sum_to(_, _, _)
\* f[lo] + ... + f[hi]
sum_to(f, lo, hi) == IF lo > hi THEN 0 ELSE f[lo] + sum_to(f, lo + 1, hi)

\* torch.zeros_like(pred).scatter(1, gold.view(-1, 1), 1)
one_hot(n, gold) ==
    [s \in 1..Len(gold) |-> [c \in 0..(n - 1) |-> IF c = gold[s] THEN 1 ELSE 0]]

\* the common denominator of the smoothed targets: 1/EpsDen and 1/(n_class - 1)
target_den(n) == EpsDen * (n - 1)

\* faulty variant of smooth (C5): eps / (n_class - 1) is added to every class
smooth_all(n, oh) ==
    [s \in DOMAIN oh |->
        [c \in 0..(n - 1) |-> oh[s][c] * (EpsDen - EpsNum) * (n - 1) + EpsNum]]

\* one_hot * (1 - eps) + (1 - one_hot) * eps / (n_class - 1), as numerators
\* over target_den(n)
smooth(n, oh) ==
    [s \in DOMAIN oh |->
        [c \in 0..(n - 1) |->
            oh[s][c] * (EpsDen - EpsNum) * (n - 1) + (1 - oh[s][c]) * EpsNum]]

\* (one_hot * log_prb).sum(dim=1)
row_sums(n, w, log_prb) ==
    [s \in DOMAIN w |-> sum_to([c \in 0..(n - 1) |-> w[s][c] * log_prb[s][c]], 0, n - 1)]

\* cal_loss(pred, gold, smoothing) with n = pred.size(1): [kind, target, num, den];
\* kind is "nan" when the division by n_class - 1 = 0 makes every weight NaN
cal_loss(n, gold, log_prb, smoothing) ==
    IF smoothing
    THEN IF n = 1
         THEN [kind |-> "nan", target |-> <<>>, num |-> 0, den |-> 1]
         ELSE LET target == smooth(n, one_hot(n, gold))
                  sums   == row_sums(n, target, log_prb)
              IN  [kind   |-> "value",
                   target |-> target,
                   num    |-> -sum_to(sums, 1, Len(gold)),
                   den    |-> target_den(n) * Len(gold)]
    ELSE \* F.cross_entropy(pred, gold, reduction='mean')
         [kind   |-> "value",
          target |-> <<>>,
          num    |-> -sum_to([s \in 1..Len(gold) |-> log_prb[s][gold[s]]], 1, Len(gold)),
          den    |-> Len(gold)]

----------------------------------------------------------------------------
(* The state after model = Point_MAE_finetune_pl() *)

\* a freshly constructed module: every tensor holds the initial value v,
\* every parameter requires a gradient, the module is in training mode
Fresh(v) ==
    /\ error = "none"
    /\ file = {}
    /\ freeze_arg = TRUE
    /\ group_devider = [p \in GroupKeys |-> v]
    /\ MAE_encoder = [p \in EncParams |-> v]
    /\ cls_head = [p \in HeadParams |-> v]
    /\ requires_grad = [p \in Params |-> TRUE]
    /\ training = TRUE
    /\ opt_params = {}
    /\ opt_builds = 0
    /\ grads = {}
    /\ unfreeze_epoch = 0
    /\ start_epoch = 0
    /\ max_epochs = 0
    /\ current_epoch = 0
    /\ batch_idx = 0
    /\ unfreeze_calls = 0
    /\ epochs_started = 0
    /\ last_started = -1

Constructed(v) == pc = "constructed" /\ Fresh(v)

NoForward == [pts |-> <<>>, train |-> FALSE]
NoLogits == [err |-> "none", shape |-> <<>>]
NoLossIn == [n |-> 0, gold |-> <<>>, log_prb |-> <<>>, smoothing |-> TRUE]
NoLoss == [kind |-> "none", target |-> <<>>, num |-> 0, den |-> 1]

PureIdle ==
    /\ fwd_in = NoForward
    /\ logits = NoLogits
    /\ loss_in = NoLossIn
    /\ loss_out = NoLoss

----------------------------------------------------------------------------
(* Calls of the module's methods *)

\* model.load_submodules(path, freeze_backbone) with the file drawn from F
\* and the flag from FZ; an exception ends the caller
Load(F, FZ) ==
    /\ pc = "constructed"
    /\ \E f \in F, fz \in FZ :
         LET m == [group_devider |-> group_devider, MAE_encoder |-> MAE_encoder,
                   cls_head |-> cls_head, requires_grad |-> requires_grad,
                   error |-> "none"]
             r == load_submodules(m, f, fz)
         IN  /\ file' = f
             /\ freeze_arg' = fz
             /\ group_devider' = r.group_devider
             /\ MAE_encoder' = r.MAE_encoder
             /\ cls_head' = r.cls_head
             /\ requires_grad' = r.requires_grad
             /\ error' = r.error
             /\ pc' = IF r.error = "none" THEN "loaded" ELSE "load_error"
    /\ UNCHANGED <<training, opt_vars, trainer_vars, pure_vars>>

\* model.freeze_backbone() called directly
call_freeze ==
    /\ pc \in {"constructed", "loaded"}
    /\ requires_grad' = freeze_backbone(requires_grad)
    /\ UNCHANGED <<pc, error, file, freeze_arg, group_devider, MAE_encoder, cls_head,
                   training, opt_vars, trainer_vars, pure_vars>>

\* model.unfreeze_backbone() called directly
call_unfreeze ==
    /\ pc \in {"constructed", "loaded"}
    /\ requires_grad' = unfreeze_backbone(requires_grad)
    /\ UNCHANGED <<pc, error, file, freeze_arg, group_devider, MAE_encoder, cls_head,
                   training, opt_vars, trainer_vars, pure_vars>>

call_load == Load(Files, BOOLEAN)

----------------------------------------------------------------------------
(* trainer.fit(model, train_loader, valid_loader) with callbacks=[UnfreezeBackbone(k)] *)

\* points per cloud in the batches the loaders deliver
NumPoints == 1024

\* the batches a loader may deliver: [B, N, 3]
Batches == {<<b, NumPoints, 3>> : b \in 1..MaxBatch}

\* the exceptions forward may end in on a batch ("none": it returns), by the
\* mode of the module
step_outcomes == [train \in BOOLEAN |-> {forward(x, train).err : x \in Batches}]

\* validation batches of the sanity check run before training
\* (num_sanity_val_steps, 2 unless the Trainer is told otherwise)
SanitySteps == IF NumValBatches < 2 THEN NumValBatches ELSE 2

\* faulty variant of on_train_epoch_start (C1): the hook fires one epoch late
on_train_epoch_start_late(epoch, k, rg) ==
    IF epoch = k + 1
    THEN [called |-> TRUE, rg |-> [p \in DOMAIN rg |-> p \in EncParams \/ rg[p]]]
    ELSE [called |-> FALSE, rg |-> rg]

\* faulty variant of on_train_epoch_start (C9): the hook fires from epoch k on
on_train_epoch_start_from(epoch, k, rg) ==
    IF epoch >= k
    THEN [called |-> TRUE, rg |-> [p \in DOMAIN rg |-> p \in EncParams \/ rg[p]]]
    ELSE [called |-> FALSE, rg |-> rg]

\* UnfreezeBackbone.on_train_epoch_start with trainer.current_epoch = epoch and
\* self.unfreeze_epoch = k: whether it calls pl_module.unfreeze_backbone(), and
\* the flags it leaves
on_train_epoch_start(epoch, k, rg) ==
    IF epoch = k
    THEN [called |-> TRUE, rg |-> unfreeze_backbone(rg)]
    ELSE [called |-> FALSE, rg |-> rg]

\* trainer.fit begins: the optimizer is configured, the sanity validation
\* starts in eval mode; k, s, m are the callback's epoch, the first epoch and
\* max_epochs
Fit(K, S, M) ==
    /\ pc = "loaded"
    /\ \E k \in K, s \in S, m \in M :
         /\ unfreeze_epoch' = k
         /\ start_epoch' = s
         /\ current_epoch' = s
         /\ max_epochs' = m
    /\ opt_params' = configure_optimizers
    /\ opt_builds' = opt_builds + 1
    /\ training' = FALSE
    /\ batch_idx' = 0
    /\ pc' = "sanity"
    /\ UNCHANGED <<error, file, freeze_arg, group_devider, MAE_encoder, cls_head,
                   requires_grad, grads, unfreeze_calls, epochs_started, last_started,
                   pure_vars>>

\* validation_step on one batch, in the sanity check or after a training
\* epoch; after the last batch the module is back in training mode and, after
\* an epoch's validation, the epoch counter advances
validation_step ==
    /\ pc \in {"sanity", "validate"}
    /\ \E err \in step_outcomes[training] :
         LET limit == IF pc = "sanity" THEN SanitySteps ELSE NumValBatches
             last  == batch_idx + 1 >= limit
         IN  IF err # "none"
             THEN /\ pc' = "step_error"
                  /\ error' = err
                  /\ UNCHANGED <<training, current_epoch, batch_idx>>
             ELSE /\ error' = error
                  /\ pc' = IF last THEN "epoch_check" ELSE pc
                  /\ training' = IF last THEN TRUE ELSE training
                  /\ batch_idx' = IF last THEN 0 ELSE batch_idx + 1
                  /\ current_epoch' = IF last /\ pc = "validate"
                                      THEN current_epoch + 1 ELSE current_epoch
    /\ UNCHANGED <<file, freeze_arg, group_devider, MAE_encoder, cls_head, requires_grad,
                   opt_vars, unfreeze_epoch, start_epoch, max_epochs, unfreeze_calls,
                   epochs_started, last_started, pure_vars>>

\* a training epoch starts: the callback's on_train_epoch_start runs before
\* the first batch
train_epoch_start ==
    /\ pc = "epoch_check"
    /\ current_epoch < max_epochs
    /\ LET cb == on_train_epoch_start(current_epoch, unfreeze_epoch, requires_grad)
       IN  /\ requires_grad' = cb.rg
           /\ unfreeze_calls' = IF cb.called THEN unfreeze_calls + 1 ELSE unfreeze_calls
    /\ epochs_started' = epochs_started + 1
    /\ last_started' = current_epoch
    /\ batch_idx' = 0
    /\ pc' = "train"
    /\ UNCHANGED <<error, file, freeze_arg, group_devider, MAE_encoder, cls_head, training,
                   opt_vars, unfreeze_epoch, start_epoch, max_epochs, current_epoch,
                   pure_vars>>

\* the weights an optimizer step may leave in a module: the parameters in upd
\* take any value, the others keep theirs
updated(state, upd) ==
    {w \in [DOMAIN state -> Values] : \A p \in DOMAIN state : p \notin upd => w[p] = state[p]}

\* training_step on one batch, then backward and optimizer.step (automatic
\* optimization); after the last batch the validation run starts in eval mode
training_step ==
    /\ pc = "train"
    /\ \E err \in step_outcomes[training] :
         LET last == batch_idx + 1 >= NumTrainBatches
         IN  IF err # "none"
             THEN /\ pc' = "step_error"
                  /\ error' = err
                  /\ UNCHANGED <<MAE_encoder, cls_head, grads, training, batch_idx>>
             ELSE /\ error' = error
                  /\ grads' \in {backward(grads, requires_grad, keep) : keep \in BOOLEAN}
                  /\ MAE_encoder' \in updated(MAE_encoder, stepped(opt_params, grads'))
                  /\ cls_head' \in updated(cls_head, stepped(opt_params, grads'))
                  /\ pc' = IF last THEN "validate" ELSE pc
                  /\ training' = IF last THEN FALSE ELSE training
                  /\ batch_idx' = IF last THEN 0 ELSE batch_idx + 1
    /\ UNCHANGED <<file, freeze_arg, group_devider, requires_grad, opt_params, opt_builds,
                   unfreeze_epoch, start_epoch, max_epochs, current_epoch,
                   unfreeze_calls, epochs_started, last_started, pure_vars>>


\* max_epochs reached: fit returns
fit_end ==
    /\ pc = "epoch_check"
    /\ current_epoch >= max_epochs
    /\ pc' = "finished"
    /\ UNCHANGED <<error, file, freeze_arg, model_vars, opt_vars, trainer_vars, pure_vars>>

----------------------------------------------------------------------------
(* The __main__ script: load_submodules(path) with the default                *)
(* freeze_backbone=True, then trainer.fit with max_epochs=300 and             *)
(* UnfreezeBackbone(100)                                                       *)

main_load == Load(RunFiles, {TRUE})

\* faulty variant of main_fit (C4): max_epochs is one short
main_fit_short == Fit({ScriptUnfreezeEpoch}, {0}, {ScriptMaxEpochs - 1})

main_fit == Fit({ScriptUnfreezeEpoch}, {0}, {ScriptMaxEpochs})

InitScript == Constructed(1) /\ PureIdle

NextScript ==
    \/ main_load
    \/ main_fit
    \/ validation_step
    \/ train_epoch_start
    \/ training_step
    \/ fit_end

\* the trainer keeps running its loop until fit returns or a step raises
SpecScript == InitScript /\ [][NextScript]_vars /\ WF_vars(NextScript)

----------------------------------------------------------------------------
(* Runs with any callback epoch k, first epoch s and max_epochs m in          *)
(* 0..MaxEpoch, with and without the initial freeze, and with direct calls    *)
(* of freeze_backbone and unfreeze_backbone before fit                        *)

run_load == Load(RunFiles, BOOLEAN)

run_fit == Fit(0..MaxEpoch, 0..MaxEpoch, 0..MaxEpoch)

InitRun == Constructed(1) /\ PureIdle

NextRun ==
    \/ run_load
    \/ call_freeze
    \/ call_unfreeze
    \/ run_fit
    \/ validation_step
    \/ train_epoch_start
    \/ training_step
    \/ fit_end

SpecRun == InitRun /\ [][NextRun]_vars

----------------------------------------------------------------------------
(* The methods called directly on a fresh module, in any order: one          *)
(* load_submodules with any file and flag, freeze_backbone and                *)
(* unfreeze_backbone before and after it                                      *)

Init == (\E v \in Values : Constructed(v)) /\ PureIdle

Next ==
    \/ call_load
    \/ call_freeze
    \/ call_unfreeze

Spec == Init /\ [][Next]_vars


----------------------------------------------------------------------------
(* forward and cal_loss applied to inputs drawn from bounded sets *)

\* shapes handed to forward: batches of 1..MaxBatch clouds with too few,
\* just enough and the usual number of points, in either mode
ForwardInputs ==
    [pts : {<<b, n, 3>> : b \in 1..MaxBatch, n \in {GroupSize - 1, GroupSize, NumPoints}},
     train : BOOLEAN]

\* rows of log-probabilities over n classes: the values -1..-n in every
\* rotation, and the constant row
LogRows(n) ==
    {[c \in 0..(n - 1) |-> -(1 + ((c + k) % n))] : k \in 0..(n - 1)}
        \cup {[c \in 0..(n - 1) |-> -1]}

LossInputs ==
    UNION {UNION {[n : {n}, gold : [1..ns -> 0..(n - 1)], log_prb : [1..ns -> LogRows(n)],
                   smoothing : BOOLEAN]
                      : ns \in 1..MaxSamples}
              : n \in 1..MaxClasses}

InitPure ==
    /\ Fresh(1)
    /\ \/ /\ pc = "call_forward"
          /\ fwd_in \in ForwardInputs
          /\ loss_in = NoLossIn
       \/ /\ pc = "call_cal_loss"
          /\ fwd_in = NoForward
          /\ loss_in \in LossInputs
    /\ logits = NoLogits
    /\ loss_out = NoLoss

forward_step ==
    /\ pc = "call_forward"
    /\ logits' = forward(fwd_in.pts, fwd_in.train)
    /\ pc' = "returned"
    /\ UNCHANGED <<error, file, freeze_arg, model_vars, opt_vars, trainer_vars,
                   fwd_in, loss_in, loss_out>>

cal_loss_step ==
    /\ pc = "call_cal_loss"
    /\ loss_out' = cal_loss(loss_in.n, loss_in.gold, loss_in.log_prb, loss_in.smoothing)
    /\ pc' = "returned"
    /\ UNCHANGED <<error, file, freeze_arg, model_vars, opt_vars, trainer_vars,
                   fwd_in, loss_in, logits>>

NextPure ==
    \/ forward_step
    \/ cal_loss_step

SpecPure == InitPure /\ [][NextPure]_vars


----------------------------------------------------------------------------
(* Properties *)

\* the checkpoint in the file handed to load_submodules
Loaded == CHOOSE c \in file : TRUE

\* positions inside trainer.fit
InFit == pc \in {"sanity", "epoch_check", "train", "validate", "finished", "step_error"}

EncoderFrozen == \A p \in EncParams : ~requires_grad[p]
EncoderTrainable == \A p \in EncParams : requires_grad[p]

\* C1 (the script's run): in every training step of epochs 0..99 every
\* MAE_encoder parameter has requires_grad = False, in every training step of
\* epochs 100..299 every MAE_encoder parameter has requires_grad = True, no
\* training step runs outside epochs 0..299, and after load_submodules a flag
\* that is True never becomes False again.
C1_StagedSchedule ==
    /\ [](pc = "train" =>
            /\ current_epoch \in 0..(ScriptMaxEpochs - 1)
            /\ current_epoch < ScriptUnfreezeEpoch => EncoderFrozen
            /\ current_epoch >= ScriptUnfreezeEpoch => EncoderTrainable)
    /\ [][pc # "constructed" =>
            \A p \in EncParams : requires_grad[p] => requires_grad'[p]]_vars

\* C1 witness: a training step of the last epoch, the encoder trainable,
\* after the frozen epochs
C1_Witness ==
    /\ pc = "train"
    /\ current_epoch = ScriptMaxEpochs - 1
    /\ epochs_started = ScriptMaxEpochs
    /\ EncoderTrainable
    /\ unfreeze_calls = 1

\* C4 (the script's run): the training epochs started are 0, 1, 2, ... in
\* this order, each once, never one with index >= 300; fit returns only after
\* all 300 of them; and once fit has started it eventually returns, unless a
\* training or validation step raises.
C4_RunsToCompletion ==
    /\ [](/\ last_started = epochs_started - 1
          /\ epochs_started <= ScriptMaxEpochs
          /\ pc = "finished" => epochs_started = ScriptMaxEpochs /\ error = "none")
    /\ (pc = "sanity") ~> (pc = "finished" \/ pc = "step_error")

\* C4 witness: fit has returned after its 300 epochs
C4_Witness == pc = "finished" /\ epochs_started = ScriptMaxEpochs /\ last_started = 299

\* C8 (the script's run): configure_optimizers runs once, over all
\* parameters, while the encoder is frozen; as long as only epochs 0..99 have
\* started the MAE_encoder weights equal the loaded ones; and a weight
\* changes only in a training step in which its parameter is trainable.
C8_OneOptimizer ==
    /\ [](/\ opt_builds = (IF InFit THEN 1 ELSE 0)
          /\ InFit => opt_params = Params
          /\ pc = "sanity" => EncoderFrozen
          /\ InFit /\ epochs_started <= ScriptUnfreezeEpoch
                => MAE_encoder = Loaded["MAE_encoder"])
    /\ [][pc # "constructed" =>
            /\ \A p \in EncParams :
                 MAE_encoder'[p] # MAE_encoder[p] => pc = "train" /\ requires_grad[p]
            /\ \A p \in HeadParams :
                 cls_head'[p] # cls_head[p] => pc = "train" /\ requires_grad[p]]_vars

\* C8 witness: in epoch 99 the head has moved away from its loaded weights
\* while the encoder still holds them (the optimizer built once)
C8_Witness ==
    /\ pc = "train"
    /\ current_epoch = ScriptUnfreezeEpoch - 1
    /\ has_cls_head(Loaded)
    /\ cls_head # Loaded["cls_head"]
    /\ MAE_encoder = Loaded["MAE_encoder"]
    /\ opt_builds = 1

\* after epoch 100 has started the same optimizer updates the encoder
C8_EncoderUpdated ==
    /\ current_epoch >= ScriptUnfreezeEpoch
    /\ MAE_encoder # Loaded["MAE_encoder"]
    /\ opt_builds = 1


\* C7 (any run): every cls_head parameter is trainable in every state; no
\* step changes the requires_grad flag of a parameter outside MAE_encoder;
\* and a direct call of freeze_backbone or unfreeze_backbone, like the
\* callback's hook, leaves every tensor of the three submodules as it was.
C7_BackboneOnly ==
    /\ [](\A p \in HeadParams : requires_grad[p])
    /\ [][\A p \in Params \ EncParams : requires_grad'[p] = requires_grad[p]]_vars
    /\ [][(pc' = pc /\ pc \in {"constructed", "loaded"}) \/ pc = "epoch_check"
            => UNCHANGED <<group_devider, MAE_encoder, cls_head>>]_vars

\* C7 witness: a training step after a freezing load and the callback's
\* unfreeze, the head trainable throughout
C7_Witness ==
    /\ pc = "train"
    /\ freeze_arg
    /\ file # {}
    /\ unfreeze_calls = 1
    /\ \A p \in HeadParams : requires_grad[p]
    /\ EncoderTrainable

\* C9 (any run, callback epoch k, epochs s..m-1): when an epoch starts the
\* hook calls unfreeze_backbone exactly if current_epoch = k (every encoder
\* flag is then True) and otherwise leaves every flag as it was; the training
\* steps of epoch k run with the encoder trainable; the hook unfreezes at
\* most once in a run, and never when s > k or m <= k, when no step of fit
\* changes a flag.
C9_UnfreezeAtK ==
    /\ [][pc = "epoch_check" /\ pc' = "train" =>
            IF current_epoch = unfreeze_epoch
            THEN /\ unfreeze_calls' = unfreeze_calls + 1
                 /\ \A p \in EncParams : requires_grad'[p]
            ELSE /\ unfreeze_calls' = unfreeze_calls
                 /\ requires_grad' = requires_grad]_vars
    /\ [](pc = "train" /\ current_epoch = unfreeze_epoch => EncoderTrainable)
    /\ [](unfreeze_calls <= 1)
    /\ [](InFit /\ (start_epoch > unfreeze_epoch \/ max_epochs <= unfreeze_epoch)
            => unfreeze_calls = 0)
    /\ [][InFit /\ (start_epoch > unfreeze_epoch \/ max_epochs <= unfreeze_epoch)
            => requires_grad' = requires_grad]_vars

\* C9 witness: fit has returned, the hook left the flags alone in an earlier
\* epoch and unfroze the frozen encoder once, at epoch k
C9_Witness ==
    /\ pc = "finished"
    /\ start_epoch < unfreeze_epoch
    /\ unfreeze_calls = 1
    /\ EncoderTrainable
    /\ freeze_arg

\* a run that starts after epoch k ends with the backbone still frozen
C9_StaysFrozen ==
    /\ pc = "finished"
    /\ start_epoch > unfreeze_epoch
    /\ epochs_started >= 1
    /\ EncoderFrozen

\* C2 as stated: a load_submodules call on a checkpoint that lacks any of the
\* three keys ends in an error.
C2_AnyMissingKeyRaises ==
    pc \in {"loaded", "load_error"} /\ file # {} /\ CkptKeys \ DOMAIN Loaded # {}
        => pc = "load_error"

\* a state dict fits a module when it has exactly the module's keys
Fits(ckpt, k) == DOMAIN ckpt[k] = ModuleKeys(k)

\* C2 amended: a call on a checkpoint that lacks group_devider or MAE_encoder
\* ends in an error and never returns; a call on a checkpoint that lacks only
\* cls_head, with fitting states under the other two keys, returns normally.
C2_RequiredKeyRaises ==
    pc \in {"loaded", "load_error"} /\ file # {} =>
        /\ {"group_devider", "MAE_encoder"} \ DOMAIN Loaded # {}
              => pc = "load_error" /\ error \in {"KeyError", "RuntimeError"}
        /\ (/\ CkptKeys \ DOMAIN Loaded = {"cls_head"}
            /\ Fits(Loaded, "group_devider")
            /\ Fits(Loaded, "MAE_encoder"))
              => pc = "loaded" /\ error = "none"

\* C2 witness: group_devider was loaded, MAE_encoder is absent: KeyError
C2_Witness ==
    /\ pc = "load_error"
    /\ file # {}
    /\ DOMAIN Loaded = {"group_devider", "cls_head"}
    /\ Fits(Loaded, "group_devider")
    /\ error = "KeyError"

\* a checkpoint without cls_head was loaded normally
C2_NoHeadLoads == pc = "loaded" /\ ~has_cls_head(Loaded)

\* C6 (direct calls): when load_submodules returns normally, group_devider
\* and MAE_encoder hold the states stored under their keys, and cls_head
\* holds the state stored under cls_head if the key is present and the state
\* it had before the call if not.
C6_AssembledFromCheckpoint ==
    [][pc = "constructed" /\ pc' = "loaded" =>
         LET c == CHOOSE x \in file' : TRUE
         IN  /\ group_devider' = c["group_devider"]
             /\ MAE_encoder' = c["MAE_encoder"]
             /\ cls_head' = IF "cls_head" \in DOMAIN c THEN c["cls_head"] ELSE cls_head]_vars

\* C6 witness: a checkpoint without cls_head was loaded; the encoder holds
\* the stored state, which differs from the head's initial one
C6_Witness ==
    /\ pc = "loaded"
    /\ ~has_cls_head(Loaded)
    /\ MAE_encoder = Loaded["MAE_encoder"]
    /\ group_devider = Loaded["group_devider"]
    /\ \A p \in EncParams, q \in HeadParams : MAE_encoder[p] # cls_head[q]

\* C10 (direct calls): a load_submodules call that ends in an error, or that
\* is made with freeze_backbone = False, leaves every requires_grad flag as
\* it was; a call that returns with freeze_backbone = True leaves every
\* encoder flag False and the others as they were.
C10_FreezeLast ==
    [][pc = "constructed" /\ pc' # pc =>
         /\ pc' = "load_error" \/ ~freeze_arg' => requires_grad' = requires_grad
         /\ pc' = "loaded" /\ freeze_arg' =>
              \A p \in Params :
                 requires_grad'[p] = (p \notin EncParams /\ requires_grad[p])]_vars

\* C10 witness: a freezing call failed in the strict load of cls_head, after
\* both other states were loaded, and the encoder is still trainable
C10_Witness ==
    /\ pc = "load_error"
    /\ error = "RuntimeError"
    /\ freeze_arg
    /\ file # {}
    /\ DOMAIN Loaded = CkptKeys
    /\ ~Fits(Loaded, "cls_head")
    /\ MAE_encoder = Loaded["MAE_encoder"]
    /\ EncoderTrainable

\* a call with freeze_backbone = False returned and a backbone frozen before
\* the call is still frozen
C10_KeepsFrozen == pc = "loaded" /\ ~freeze_arg /\ EncoderFrozen


\* the shape handed to forward has a batch of B >= 1 clouds of a point count
\* the grouping module accepts
Accepted(pts) == group_forward(pts).err = "none"

\* C3 as stated: for every B >= 1 and accepted N, forward on [B, N, 3]
\* returns logits of shape [B, 40].
C3_LogitsForEveryBatch ==
    pc = "returned" /\ fwd_in # NoForward /\ Accepted(fwd_in.pts)
        => logits = Ok(<<fwd_in.pts[1], NumClasses>>)

\* C3 amended: for every accepted [B, N, 3] with B >= 2, and with B = 1 when
\* the module is in eval mode, forward returns logits of shape [B, 40], the
\* pooled feature vector being [B, 768], the input width of cls_head; with
\* B = 1 in training mode the first BatchNorm1d of cls_head raises ValueError.
C3_LogitsShape ==
    pc = "returned" /\ fwd_in # NoForward /\ Accepted(fwd_in.pts) =>
        LET B == fwd_in.pts[1]
        IN  /\ B >= 2 \/ ~fwd_in.train => logits = Ok(<<B, NumClasses>>)
            /\ B = 1 /\ fwd_in.train => logits = Raise("ValueError")
            /\ cls_head_layers[1].op = "Linear"
            /\ cls_head_layers[1].a = 768
            /\ cls_head_layers[Len(cls_head_layers)].b = 40

\* C3 witness: forward has returned [2, 40] for a training batch of two
\* clouds
C3_Witness ==
    /\ pc = "returned"
    /\ fwd_in # NoForward
    /\ fwd_in.train
    /\ fwd_in.pts = <<2, NumPoints, 3>>
    /\ logits = Ok(<<2, 40>>)

\* forward has returned [1, 40] for a single cloud in eval mode
C3_SingleEval ==
    /\ pc = "returned"
    /\ fwd_in # NoForward
    /\ ~fwd_in.train
    /\ fwd_in.pts[1] = 1
    /\ logits = Ok(<<1, 40>>)

\* C5 (smoothing enabled, n_class >= 2, every label in 0..n_class-1): with D
\* the common denominator 10 * (n_class - 1), every sample's target gives the
\* true class 0.8 (8 * (n_class - 1) / D) and every other class
\* 0.2 / (n_class - 1) (2 / D); the weights are positive, sum to 1 (D / D)
\* and the true class has the strictly largest one; and the loss is the mean
\* over the samples of -(0.8 * log_prb[true] + 0.2 / (n_class - 1) * the sum
\* of the other log_prb).
C5_SmoothedTarget ==
    pc = "returned" /\ loss_in # NoLossIn /\ loss_in.smoothing /\ loss_in.n >= 2 =>
        LET n  == loss_in.n
            D  == 10 * (n - 1)
            S  == DOMAIN loss_in.gold
            t  == loss_out.target
            lp == loss_in.log_prb
            others(s) == sum_to(lp[s], 0, n - 1) - lp[s][loss_in.gold[s]]
            nll(s) == -(8 * (n - 1) * lp[s][loss_in.gold[s]] + 2 * others(s))
        IN  /\ loss_out.kind = "value"
            /\ DOMAIN t = S
            /\ \A s \in S :
                 /\ DOMAIN t[s] = 0..(n - 1)
                 /\ t[s][loss_in.gold[s]] = 8 * (n - 1)
                 /\ \A c \in 0..(n - 1) :
                      /\ t[s][c] > 0
                      /\ c # loss_in.gold[s] => t[s][c] = 2 /\ t[s][c] < t[s][loss_in.gold[s]]
                 /\ sum_to(t[s], 0, n - 1) = D
            /\ loss_out.den = D * Len(loss_in.gold)
            /\ loss_out.num = sum_to([s \in S |-> nll(s)], 1, Len(loss_in.gold))

\* C5 witness: a smoothed loss over three classes and two samples with
\* different labels
C5_Witness ==
    /\ pc = "returned"
    /\ loss_in # NoLossIn
    /\ loss_in.smoothing
    /\ loss_in.n = 3
    /\ Len(loss_in.gold) = 2
    /\ loss_in.gold[1] # loss_in.gold[2]
    /\ loss_out.kind = "value"
    /\ loss_out.den = 40

====
